---- MODULE Spec2Model ----
(***************************************************************************)
(* Model of generic-simd's slice layer (src/generic-simd/src/slice.rs):    *)
(* the Slice extension (align / align_mut / overlapping / overlapping_mut),*)
(* the sliding-window views Overlapping and OverlappingMut, and the        *)
(* write-back guard RefMut.                                                *)
(*                                                                         *)
(* A scalar slice is a sequence of scalars; window index i (0-based, as in *)
(* the code) covers the 1-based positions i+1 .. i+width of the sequence.  *)
(* The Vector trait itself (zeroed, read_ptr, write_ptr, width) lives in   *)
(* the crate's vector module; its three memory primitives are modelled     *)
(* from their contract.                                                    *)
(***************************************************************************)
EXTENDS Integers, Sequences, FiniteSets, TLC

\* ---------------------------------------------------------------- bounds
MaxLen == 4        \* longest scalar slice explored
MaxScalar == 1     \* scalars are 0 .. MaxScalar
MaxGuards == 2     \* cap on the guards recorded per view
MaxAddr == 3       \* base addresses explored, in units of one scalar
UsizeMod == 1073741824  \* usize arithmetic is modular; 2^30 stands for 2^64

\* ------------------------------------------------------- program constants
\* the lane counts SliceExt instantiates; Native resolves to one of them
Widths == {1, 2, 4, 8}

Scalars == 0 .. MaxScalar
Indices == 0 .. (MaxLen + 1)

RECURSIVE SeqsUpTo(_)
SeqsUpTo(n) ==
  IF n = 0 THEN {<<>>}
  ELSE SeqsUpTo(n - 1) \cup [1 .. n -> Scalars]

Slices == SeqsUpTo(MaxLen)

VARIABLES
  slice,     \* the caller's scalar buffer (the memory the views borrow)
  width,     \* V::width() of the vector type the operations are instantiated at
  pc,        \* "start" | "view" | "panicked" | "done": the caller's scope
  view,      \* "none" | "shared" (Overlapping) | "mut" (OverlappingMut)
  borrowed,  \* how the view is borrowed by its last get_mut: "none" | "call" | "lifetime"
  guards,    \* the RefMut values created from the view, in creation order
  ret,       \* the last operation and what it returned
  parts,     \* the (prefix, body, suffix) returned by the last align
  access,    \* the vector-sized memory accesses made by the last operation
  slice0,    \* the buffer as it was when the view's scope began
  exit       \* how the scope ended: "none" | "return" | "early" | "unwind"

vars == <<slice, width, pc, view, borrowed, guards, ret, parts, access, slice0, exit>>

\* ------------------------------------------------------ Vector primitives
\* V::zeroed(token): every lane is zero
Zeroed == [k \in 1 .. width |-> 0]

\* the scalars at offsets [p, p + width) of s, defined when they are in bounds
Window(s, p) == [k \in 1 .. width |-> s[p + k]]

InBounds(s, p) == p + width <= Len(s)

\* V::read_ptr(token, ptr.add(p)): reads width scalars starting at offset p.
\* Lanes that lie beyond the slice are outside the allocation: any value.
ReadPtr(s, p) ==
  IF InBounds(s, p) THEN {Window(s, p)}
  ELSE {v \in [1 .. width -> Scalars] :
          \A k \in 1 .. width : (p + k <= Len(s)) => v[k] = s[p + k]}

\* v.write_ptr(ptr.add(p)): stores the width lanes of v at offsets [p, p + width);
\* lanes beyond the slice land outside it (recorded in access, not in s)
WritePtr(s, p, v) ==
  [j \in 1 .. Len(s) |-> IF j > p /\ j <= p + width THEN v[j - p] ELSE s[j]]

NoneRet(op, i) == [op |-> op, index |-> i, some |-> FALSE, val |-> <<>>, n |-> 0]
SomeRet(op, i, v) == [op |-> op, index |-> i, some |-> TRUE, val |-> v, n |-> 0]
NumRet(op, k) == [op |-> op, index |-> 0, some |-> FALSE, val |-> <<>>, n |-> k]

NoParts == [prefix |-> <<>>, body |-> <<>>, suffix |-> <<>>]

Init ==
  /\ slice \in Slices
  /\ width \in Widths
  /\ pc = "start"
  /\ view = "none"
  /\ borrowed = "none"
  /\ guards = <<>>
  /\ ret = NoneRet("init", 0)
  /\ parts = NoParts
  /\ access = {}
  /\ slice0 = slice
  /\ exit = "none"

\* ------------------------------------------------- Overlapping / OverlappingMut
\* mutant: the assertion only rejects the empty slice
NewAcceptsNonEmpty(s) == Len(s) >= 1

\* the assert! of Overlapping::new and OverlappingMut::new
NewAccepts(s) == Len(s) >= width

\* Overlapping::len / OverlappingMut::len: slice.len() - V::width() + 1 in usize
len(s) == (((Len(s) - width) % UsizeMod) + 1) % UsizeMod

New(kind, op) ==
  /\ pc = "start"
  /\ IF NewAccepts(slice)
       THEN /\ pc' = "view"
            /\ view' = kind
       ELSE /\ pc' = "panicked"
            /\ view' = "none"
  /\ ret' = NoneRet(op, 0)
  /\ slice0' = slice
  /\ borrowed' = "none"
  /\ guards' = <<>>
  /\ parts' = NoParts
  /\ access' = {}
  /\ exit' = "none"
  /\ UNCHANGED <<slice, width>>

OverlappingNew == New("shared", "Overlapping::new")
OverlappingMutNew == New("mut", "OverlappingMut::new")

\* <[T] as Slice>::overlapping / overlapping_mut (and the SliceExt wrappers
\* overlapping1 .. overlapping8, overlapping_native) forward to new
SliceOverlapping == New("shared", "overlapping")
SliceOverlappingMut == New("mut", "overlapping_mut")

\* a &self method can be called while no exclusive borrow of the view is live
CanBorrowShared == borrowed # "lifetime" /\ \A g \in 1 .. Len(guards) : ~guards[g].armed
\* a &mut self method needs the same
CanBorrowMut == CanBorrowShared

ViewLen ==
  /\ pc = "view"
  /\ CanBorrowShared
  /\ ret' = NumRet("len", len(slice))
  /\ parts' = NoParts
  /\ access' = {}
  /\ UNCHANGED <<slice, width, pc, view, borrowed, guards, slice0, exit>>

\* mutant: the bounds check admits index = len()
GetAcceptsInclusive(s, index) == index <= len(s)

\* the bounds check of get and get_mut
GetAccepts(s, index) == index < len(s)

\* Overlapping::get_unchecked / OverlappingMut::get_unchecked:
\* V::read_ptr(.., self.slice.as_ptr().add(index))
GetUncheckedOffset(index) == index

ReadAt(op, index) ==
  \E v \in ReadPtr(slice, GetUncheckedOffset(index)) :
    /\ ret' = SomeRet(op, index, v)
    /\ access' = {[kind |-> "read", lo |-> GetUncheckedOffset(index),
                   hi |-> GetUncheckedOffset(index) + width]}

\* Overlapping::get / OverlappingMut::get
Get(index) ==
  /\ pc = "view"
  /\ CanBorrowShared
  /\ IF GetAccepts(slice, index)
       THEN ReadAt("get", index)
       ELSE /\ ret' = NoneRet("get", index)
            /\ access' = {}
  /\ parts' = NoParts
  /\ UNCHANGED <<slice, width, pc, view, borrowed, guards, slice0, exit>>

\* get_unchecked, called as its safety section requires (index < len())
GetUnchecked(index) ==
  /\ pc = "view"
  /\ CanBorrowShared
  /\ index < len(slice)
  /\ ReadAt("get_unchecked", index)
  /\ parts' = NoParts
  /\ UNCHANGED <<slice, width, pc, view, borrowed, guards, slice0, exit>>

\* ------------------------------------------------------------------ RefMut
\* RefMut::new(token, source): Self { source, temp: V::zeroed(token), .. }
RefMutNew(source) ==
  [source |-> source, temp |-> Zeroed, armed |-> TRUE, flushes |-> 0, mutated |-> FALSE]

\* mutant: the write-back address is one scalar too far
GetUncheckedMutGuardOffByOne(index) == RefMutNew(index + 1)

\* OverlappingMut::get_unchecked_mut: RefMut::new(.., self.slice.as_mut_ptr().add(index))
GetUncheckedMutGuard(index) == RefMutNew(index)

\* mutant: the receiver is a plain &mut self, borrowed for the call only
SelfBorrowForCall == "call"

\* the receiver of get_mut / get_unchecked_mut is &'a mut self with 'a the
\* view's own lifetime parameter: the exclusive borrow lasts as long as the view
SelfBorrow == "lifetime"

MakeGuard(op, index) ==
  /\ guards' = Append(guards, [index |-> index] @@ GetUncheckedMutGuard(index))
  /\ ret' = SomeRet(op, index, <<>>)

\* OverlappingMut::get_mut
GetMut(index) ==
  /\ pc = "view"
  /\ view = "mut"
  /\ CanBorrowMut
  /\ Len(guards) < MaxGuards
  /\ IF GetAccepts(slice, index)
       THEN MakeGuard("get_mut", index)
       ELSE /\ ret' = NoneRet("get_mut", index)
            /\ guards' = guards
  /\ borrowed' = SelfBorrow
  /\ parts' = NoParts
  /\ access' = {}
  /\ UNCHANGED <<slice, width, pc, view, slice0, exit>>

\* get_unchecked_mut, called as its safety section requires (index < len())
GetUncheckedMut(index) ==
  /\ pc = "view"
  /\ view = "mut"
  /\ CanBorrowMut
  /\ Len(guards) < MaxGuards
  /\ index < len(slice)
  /\ MakeGuard("get_unchecked_mut", index)
  /\ borrowed' = SelfBorrow
  /\ parts' = NoParts
  /\ access' = {}
  /\ UNCHANGED <<slice, width, pc, view, slice0, exit>>

\* Deref::deref: &self.temp
Deref(g) ==
  /\ pc = "view"
  /\ g \in 1 .. Len(guards)
  /\ guards[g].armed
  /\ ret' = SomeRet("deref", guards[g].source, guards[g].temp)
  /\ parts' = NoParts
  /\ access' = {}
  /\ UNCHANGED <<slice, width, pc, view, borrowed, guards, slice0, exit>>

\* mutant: the assignment goes straight through to the buffer
DerefMutWriteThrough(s, g, v) == WritePtr(s, g.source, v)

\* what an assignment through DerefMut::deref_mut (&mut self.temp) does to the buffer
DerefMutMemory(s, g, v) == s

\* DerefMut::deref_mut followed by a store of v: *guard = v
DerefMut(g, v) ==
  /\ pc = "view"
  /\ g \in 1 .. Len(guards)
  /\ guards[g].armed
  /\ guards' = [guards EXCEPT ![g].temp = v, ![g].mutated = TRUE]
  /\ slice' = DerefMutMemory(slice, guards[g], v)
  /\ ret' = NoneRet("deref_mut", guards[g].source)
  /\ parts' = NoParts
  /\ access' = {}
  /\ UNCHANGED <<width, pc, view, borrowed, slice0, exit>>

\* mutant: drop forgets the write-back
dropWithoutWrite(s, g) == s

\* Drop::drop: self.temp.write_ptr(self.source)
drop(s, g) == WritePtr(s, g.source, g.temp)

WriteAccess(g) == [kind |-> "write", lo |-> g.source, hi |-> g.source + width]

\* mutant: the write-back is skipped when the scope is left by unwinding
DropRunsUnlessUnwinding(g, kind) == g.armed /\ kind # "unwind"

\* a guard is dropped exactly when it is still owned by the scope that ends
DropRuns(g, kind) == g.armed

Flushed(g) == [g EXCEPT !.armed = FALSE, !.flushes = g.flushes + 1]

\* the guard's own binding ends before the view's (inner block, or drop(guard))
DropGuard(g) ==
  /\ pc = "view"
  /\ g \in 1 .. Len(guards)
  /\ DropRuns(guards[g], "return")
  /\ slice' = drop(slice, guards[g])
  /\ guards' = [guards EXCEPT ![g] = Flushed(guards[g])]
  /\ access' = {WriteAccess(guards[g])}
  /\ ret' = NoneRet("drop", guards[g].source)
  /\ parts' = NoParts
  /\ UNCHANGED <<width, pc, view, borrowed, slice0, exit>>

\* locals are dropped in reverse order of declaration: guard k, then k-1, ...
RECURSIVE DropAll(_, _, _, _)
DropAll(s, gs, k, kind) ==
  IF k = 0 THEN [mem |-> s, gs |-> gs]
  ELSE IF DropRuns(gs[k], kind)
         THEN DropAll(drop(s, gs[k]), [gs EXCEPT ![k] = Flushed(gs[k])], k - 1, kind)
         ELSE DropAll(s, gs, k - 1, kind)

ExitKinds == {"return", "early", "unwind"}

\* the scope holding the view (and any guard still alive) ends: by reaching
\* its end, by an early return, or by a panic unwinding through it
EndScope(kind) ==
  /\ pc = "view"
  /\ LET r == DropAll(slice, guards, Len(guards), kind)
     IN /\ slice' = r.mem
        /\ guards' = r.gs
        /\ access' = {WriteAccess(guards[g]) :
                        g \in {h \in 1 .. Len(guards) : DropRuns(guards[h], kind)}}
  /\ pc' = "done"
  /\ exit' = kind
  /\ ret' = NoneRet("end", 0)
  /\ parts' = NoParts
  /\ UNCHANGED <<width, view, borrowed, slice0>>

\* after the scope ended the borrow of the buffer is over; the caller goes on
Restart ==
  /\ pc = "done"
  /\ pc' = "start"
  /\ view' = "none"
  /\ borrowed' = "none"
  /\ guards' = <<>>
  /\ ret' = NoneRet("init", 0)
  /\ parts' = NoParts
  /\ access' = {}
  /\ slice0' = slice
  /\ exit' = "none"
  /\ UNCHANGED <<slice, width>>

\* ------------------------------------------------------------ Slice::align
\* alignments a vector of width lanes can require, in units of one scalar:
\* a power of two that divides the vector's size
VectorAligns == {a \in Widths : a <= width}

\* ptr.align_offset(align_of::<V>()) in elements, for a buffer whose first
\* scalar sits addr scalars past an aligned address; the library documents
\* that the call may also give usize::MAX
AlignOffsets(addr, a) == {(a - (addr % a)) % a, UsizeMod - 1}

\* [T]::align_to::<V>() once the offset is known
AlignTo(s, offset) ==
  IF offset > Len(s)
    THEN [prefix |-> s, body |-> <<>>, suffix |-> <<>>]
    ELSE LET rest == SubSeq(s, offset + 1, Len(s))
             us_len == Len(rest) \div width
             ts_len == Len(rest) % width
         IN [prefix |-> SubSeq(s, 1, offset),
             body |-> [j \in 1 .. us_len |->
                         [k \in 1 .. width |-> rest[(j - 1) * width + k]]],
             suffix |-> SubSeq(rest, Len(rest) - ts_len + 1, Len(rest))]

\* mutant: the scalars after the last whole vector are left out
alignDroppingRemainder(s, offset) == [AlignTo(s, offset) EXCEPT !.suffix = <<>>]

\* <[T] as Slice>::align / align_mut: unsafe { self.align_to() }
align(s, offset) == AlignTo(s, offset)

AlignOp(op) ==
  /\ pc = "start"
  /\ \E addr \in 0 .. MaxAddr : \E a \in VectorAligns : \E offset \in AlignOffsets(addr, a) :
       parts' = align(slice, offset)
  /\ ret' = NoneRet(op, 0)
  /\ access' = {}
  /\ UNCHANGED <<slice, width, pc, view, borrowed, guards, slice0, exit>>

Align == AlignOp("align")
AlignMut == AlignOp("align_mut")

Next ==
  \/ Align
  \/ AlignMut
  \/ OverlappingNew
  \/ OverlappingMutNew
  \/ SliceOverlapping
  \/ SliceOverlappingMut
  \/ ViewLen
  \/ \E index \in Indices : Get(index)
  \/ \E index \in Indices : GetUnchecked(index)
  \/ \E index \in Indices : GetMut(index)
  \/ \E index \in Indices : GetUncheckedMut(index)
  \/ \E g \in 1 .. MaxGuards : Deref(g)
  \/ \E g \in 1 .. MaxGuards : \E v \in [1 .. width -> Scalars] : DerefMut(g, v)
  \/ \E g \in 1 .. MaxGuards : DropGuard(g)
  \/ \E kind \in ExitKinds : EndScope(kind)
  \/ Restart

Spec == Init /\ [][Next]_vars

\* ================================================================ claims
Guards == {guards[g] : g \in 1 .. Len(guards)}

NewOps == {"Overlapping::new", "OverlappingMut::new", "overlapping", "overlapping_mut"}
GetOps == {"get", "get_unchecked", "get_mut", "get_unchecked_mut"}

RECURSIVE Flatten(_)
Flatten(body) ==
  IF body = <<>> THEN <<>> ELSE Head(body) \o Flatten(Tail(body))

\* C1: a guard obtained with get_mut(i) / get_unchecked_mut(i) that is dropped
\* without ever being mutated leaves every scalar of the slice as it was.
C1_UnmutatedGuardLeavesSliceUnchanged ==
  \A g \in Guards : (g.flushes >= 1 /\ ~g.mutated) => slice = slice0

\* C2: a guard returned by get_mut(i) is armed holding a copy of its window:
\* before any mutation its vector reads as s[i..i+W).
C2_FreshGuardHoldsWindow ==
  /\ \A g \in Guards : (g.armed /\ ~g.mutated) => g.temp = Window(slice, g.index)
  /\ \A g \in Guards :
       (ret.op = "deref" /\ g.armed /\ ~g.mutated) => ret.val = Window(slice, g.index)

\* C3: setting every lane of the guard from get_mut(i) to v and dropping it
\* leaves s[i..i+W) = v and every scalar outside [i, i+W) as it was.
C3_SetThenDropWritesWindow ==
  \A g \in Guards :
    (~g.armed /\ g.mutated) =>
      /\ Len(slice) = Len(slice0)
      /\ Window(slice, g.index) = g.temp
      /\ \A j \in 1 .. Len(slice) :
           (j <= g.index \/ j > g.index + width) => slice[j] = slice0[j]

C3_Witness ==
  /\ width = 2
  /\ slice0 = <<1, 0, 0, 1>>
  /\ slice = <<1, 1, 1, 1>>
  /\ \E g \in Guards : ~g.armed /\ g.mutated /\ g.index = 1 /\ g.temp = <<1, 1>>

\* C4: every guard that is created writes back exactly once, when its scope
\* ends, whichever way the scope is left: never twice, and never zero times
\* once the scope is over.
C4_ExactlyOneWriteBack ==
  \A g \in Guards :
    /\ g.flushes <= 1
    /\ g.armed <=> (g.flushes = 0)
    /\ (pc = "done") => g.flushes = 1

C4_Witness ==
  /\ pc = "done"
  /\ exit = "unwind"
  /\ \E g \in Guards : g.flushes = 1 /\ g.mutated

\* C5: len() is n - W + 1; get(i) is the window s[i..i+W) for i < len() and
\* None for every i >= len(), i = len() included.
C5_LenAndGet ==
  /\ (ret.op = "len") => ret.n = Len(slice) - width + 1
  /\ (ret.op = "get") =>
       IF ret.index < Len(slice) - width + 1
         THEN ret.some /\ ret.val = Window(slice, ret.index)
         ELSE ~ret.some

C5_Witness ==
  /\ width = 2
  /\ Len(slice) = 4
  /\ ret.op = "get"
  /\ ret.index = 3
  /\ ~ret.some

\* C6: constructing a view over a slice shorter than W panics and yields no
\* view; otherwise it succeeds, so every view has slice length >= W and
\* len() >= 1 with no underflow in the subtraction.
C6_ConstructionChecksWidth ==
  /\ (ret.op \in NewOps) => ((pc = "panicked") <=> (Len(slice) < width))
  /\ (pc = "panicked") => (view = "none" /\ Len(slice) < width)
  /\ (pc = "view") =>
       /\ view \in {"shared", "mut"}
       /\ Len(slice) >= width
       /\ len(slice) >= 1
       /\ len(slice) = Len(slice) - width + 1

C6_Witness ==
  /\ pc = "panicked"
  /\ ret.op = "overlapping_mut"
  /\ width = 2
  /\ Len(slice) = 1

\* C7: align / align_mut return (prefix, body, suffix) whose lengths add up to
\* the slice's and whose scalars, in that order, are exactly the slice.
C7_AlignPartitions ==
  (ret.op \in {"align", "align_mut"}) =>
    /\ Len(parts.prefix) + Len(parts.body) * width + Len(parts.suffix) = Len(slice)
    /\ \A j \in 1 .. Len(parts.body) : Len(parts.body[j]) = width
    /\ parts.prefix \o Flatten(parts.body) \o parts.suffix = slice

C7_Witness ==
  /\ ret.op = "align"
  /\ width = 2
  /\ slice = <<1, 0, 1, 0>>
  /\ parts.prefix = <<1>>
  /\ parts.body = << <<0, 1>> >>
  /\ parts.suffix = <<0>>
  /\ Len(parts.prefix) = 1
  /\ Len(parts.body) = 1
  /\ Len(parts.suffix) = 1

\* C8: every vector-sized read or write made by the operations covers offsets
\* [i, i+W) with i + W <= slice length.
C8_AccessesInBounds ==
  \A a \in access : a.lo >= 0 /\ a.hi = a.lo + width /\ a.hi <= Len(slice)

C8_Witness ==
  /\ \E a \in access : a.kind = "write" /\ a.lo > 0 /\ a.hi = Len(slice)
  /\ slice # slice0

\* C9: creating a guard, reading it and mutating it leave the slice alone; the
\* slice changes only in the step that drops an armed guard, and then its
\* window holds the vector the guard held at that moment.
C9_MemoryTouchedOnlyAtFlush ==
  [][ /\ (ret'.op \in {"get_mut", "get_unchecked_mut", "deref", "deref_mut"}) => slice' = slice
      /\ (slice' # slice) =>
           /\ ret'.op \in {"drop", "end"}
           /\ \E g \in 1 .. Len(guards) :
                /\ guards[g].armed
                /\ ~guards'[g].armed
                /\ Window(slice', guards[g].index) = guards[g].temp ]_vars

C9_Witness ==
  /\ ret.op = "deref_mut"
  /\ slice = slice0
  /\ \E g \in Guards : g.armed /\ g.mutated /\ g.temp # Window(slice, g.index)

\* C10: get_mut / get_unchecked_mut borrow the view for its whole lifetime:
\* a view hands out at most one guard, no get or get_mut runs on it once a
\* guard exists, and two armed guards never coexist.
C10_OneGuardPerView ==
  /\ [](Len(guards) <= 1)
  /\ [](Cardinality({g \in 1 .. Len(guards) : guards[g].armed}) <= 1)
  /\ [][ (pc = "view" /\ guards # <<>>) => ret'.op \notin GetOps ]_vars

C10_Witness ==
  /\ pc = "view"
  /\ borrowed = "lifetime"
  /\ Len(guards) = 1
  /\ ~guards[1].armed
  /\ ret.op = "drop"

====
